---- MODULE Spec2Model ----
(***************************************************************************)
(* Corvina annotation tool: the annotation store (App), the drawing and    *)
(* resize state machine (AnnotationOverlay) and the viewport transform     *)
(* (ImageViewer / PdfViewer).                                              *)
(*                                                                         *)
(* Logical coordinates are JavaScript numbers.  The store and overlay      *)
(* model keeps them as integers counted in quarter logical units, so that  *)
(* 0.5 is 2 and 1.0 is 4 and values on both sides of every threshold of    *)
(* the code exist.  The viewport model keeps scale and offset as exact     *)
(* fractions <<numerator, denominator>>.                                   *)
(***************************************************************************)
EXTENDS Integers, Sequences, FiniteSets, TLC

VARIABLES
    annotations,      \* App: useState<Annotation[]>
    nextId,           \* number of uuidv4() values handed out so far
    isDrawing,        \* App: useState(false)
    toolMode,         \* App: useState('box')
    currentBox,       \* AnnotationOverlay: <<>> is null, else <<[startX, startY, currX, currY]>>
    pendingSourceId,  \* AnnotationOverlay: NoId is null
    resizeState,      \* AnnotationOverlay: <<>> is null, else <<[id, handle, original...]>>
    finished,         \* number of onFinishDrawing() calls made by the last handler
    resizes,          \* number of resize / move drags started so far
    lastOp,           \* the last handler that ran, with its arguments
    prevAnnotations,  \* the collection as it was when the last handler started
    calls,            \* store handlers called so far (store and reorder specifications)
    original          \* the collection the reorder specification started from

storeVars == <<annotations, nextId, isDrawing, toolMode, currentBox, pendingSourceId, resizeState, finished, resizes, lastOp, prevAnnotations, calls, original>>

\* the viewer: scale, offset and the refs its handlers read
VARIABLES viewer, container, content, dimensions, scale, position, renderedScale, stateRef, shouldCenterRef, isDragging, dragStartRef, renderTimeoutRef, numPages, pageNumber, steps, lastZoom

viewVars == <<viewer, container, content, dimensions, scale, position, renderedScale, stateRef, shouldCenterRef, isDragging, dragStartRef, renderTimeoutRef, numPages, pageNumber, steps, lastZoom>>

\* App: phase, confirmation modal and backend state
VARIABLES
    phase,         \* useState('annotation')
    modal,         \* [isOpen, type, documentId]: documentId is the one executeSubmit closed over
    isLoading,     \* useState(false)
    isSubmitting,  \* useState(false)
    documentId,    \* NoDoc is null; imgFile is set exactly when documentId is
    inFlight,      \* POST /submit requests sent and not yet answered
    uploads        \* documents uploaded so far

submitVars == <<phase, modal, isLoading, isSubmitting, documentId, inFlight, uploads>>

\* connections layer: one call of getRectIntersection
VARIABLES
    clipBox,       \* the box argument [x, y, w, h], in screen pixels
    clipOther,     \* the otherCenter argument
    clipPoint      \* <<>> before the call, then the returned point

clipVars == <<clipBox, clipOther, clipPoint>>

vars == <<storeVars, viewVars, submitVars, clipVars>>

-----------------------------------------------------------------------------
(* Bounds of the model. *)

\* uuidv4() values handed out in one behaviour: annotations ever created
MaxIds == 3

\* annotations ever created in one behaviour of the geometry specification
GeomMaxIds == 1

\* resize / move drags started in one behaviour of the geometry specification
GeomMaxResizes == 2

\* store handlers called in one behaviour of the store specification
MaxCalls == 4

\* longest collection the reorder specification starts from
MaxLen == 3

-----------------------------------------------------------------------------
(* Values. *)

\* sourceId / targetId / pendingSourceId that is undefined or null
NoId == 0

\* 0.5 logical units (Math.max(0.5, ...), originalW - 0.5, width > 0.5), in quarter units
MinSize == 2

\* const logicalSize = 1, in quarter units
logicalSize == 4

\* pageNumber={1}: the image viewer's single page
ImagePage == 1

\* pointer-down and pointer-move positions in logical coordinates (getRelativeCoords),
\* quarter units: (100,100) and (40,40)
DownPoints == {<<400, 400>>}

MovePoints == {<<160, 160>>}

\* pointer positions of the geometry specification: (100,100), (40,40), (40.75,99.5)
GeomPoints == {<<400, 400>>, <<160, 160>>, <<163, 398>>}

\* pointer displacement of a resize / move drag, (clientX - startMouseX) / coordinateScale
GeomDeltas == {<<0 - 1000, 0 - 1000>>, <<1000, 1000>>, <<0 - 1, 3>>}

\* handles of the overlay: the four corner handles and the annotation body
Handles == {"nw", "ne", "sw", "se", "move"}

\* no resize or move drag starts in the specification of the whole annotation phase
NoHandles == {}

\* e.button
Buttons == {0, 2}

\* options of the sidebar's label dropdown (ANNOTATION_CLASSES); "" is the default label
Labels == {"resistor"}

ToolModes == {"box", "node", "connection"}

\* the element JavaScript yields for a missing array slot
Undefined == [id |-> NoId, type |-> "undefined", x |-> 0, y |-> 0, width |-> 0, height |-> 0, sourceId |-> NoId, targetId |-> NoId, label |-> "", page |-> 0, linkedAnnotationId |-> NoId]

-----------------------------------------------------------------------------
(* Sequence helpers: Array.prototype.findIndex and splice; filter is SelectSeq. *)

\* 0-based index of the first element with this id, -1 when there is none
RECURSIVE FindIndexById(_, _)
FindIndexById(s, id) ==
    IF s = <<>> THEN 0 - 1
    ELSE IF Head(s).id = id THEN 0
    ELSE LET r == FindIndexById(Tail(s), id) IN IF r = 0 - 1 THEN 0 - 1 ELSE r + 1

\* arr.splice(start, 1): the array left and the elements removed
SpliceRemoveOne(arr, start) ==
    LET len == Len(arr)
        actualStart == IF start < 0 THEN (IF len + start < 0 THEN 0 ELSE len + start)
                       ELSE IF start > len THEN len ELSE start
    IN  IF actualStart >= len
        THEN [rest |-> arr, removed |-> <<>>]
        ELSE [rest |-> SubSeq(arr, 1, actualStart) \o SubSeq(arr, actualStart + 2, len),
              removed |-> <<arr[actualStart + 1]>>]

\* arr.splice(start, 0, item)
SpliceInsert(arr, start, item) ==
    LET len == Len(arr)
        actualStart == IF start < 0 THEN (IF len + start < 0 THEN 0 ELSE len + start)
                       ELSE IF start > len THEN len ELSE start
    IN  SubSeq(arr, 1, actualStart) \o <<item>> \o SubSeq(arr, actualStart + 1, len)

Ids(s) == {s[i].id : i \in 1..Len(s)}

Min2(a, b) == IF a < b THEN a ELSE b

Max2(a, b) == IF a > b THEN a ELSE b

Abs(a) == IF a < 0 THEN 0 - a ELSE a

-----------------------------------------------------------------------------
(* Annotation store: the handlers of App. *)

\* DefaultLabel without the 'line' case
DefaultLabel_LineUnlabelled(type) ==
    IF type = "node" THEN "node"
    ELSE IF type = "connection" THEN "connection"
    ELSE ""

\* the label handleAddAnnotation gives a new annotation
DefaultLabel(type) ==
    IF type = "node" THEN "node"
    ELSE IF type = "line" \/ type = "connection" THEN "connection"
    ELSE ""

\* handleAddAnnotation putting the new annotation first: [newAnnotation, ...prev]
handleAddAnnotation_Prepend(prev, rect, uuid) ==
    <<[id |-> uuid, type |-> rect.type, x |-> rect.x, y |-> rect.y, width |-> rect.width, height |-> rect.height, sourceId |-> rect.sourceId, targetId |-> rect.targetId, label |-> DefaultLabel(rect.type), page |-> rect.page, linkedAnnotationId |-> NoId]>> \o prev

\* handleAddAnnotation numbering the new annotation by the collection's length
handleAddAnnotation_IdFromLength(prev, rect, uuid) ==
    Append(prev, [id |-> Len(prev) + 1, type |-> rect.type, x |-> rect.x, y |-> rect.y, width |-> rect.width, height |-> rect.height, sourceId |-> rect.sourceId, targetId |-> rect.targetId, label |-> DefaultLabel(rect.type), page |-> rect.page, linkedAnnotationId |-> NoId])

\* setAnnotations(prev => [...prev, {id: uuidv4(), label, ...rect}])
handleAddAnnotation(prev, rect, uuid) ==
    Append(prev, [id |-> uuid, type |-> rect.type, x |-> rect.x, y |-> rect.y, width |-> rect.width, height |-> rect.height, sourceId |-> rect.sourceId, targetId |-> rect.targetId, label |-> DefaultLabel(rect.type), page |-> rect.page, linkedAnnotationId |-> NoId])

\* handleUpdateAnnotation that also sweeps the connections whose source or target is gone
handleUpdateAnnotation_Sweeps(prev, id, label) ==
    LET updated == [i \in 1..Len(prev) |-> IF prev[i].id = id THEN [prev[i] EXCEPT !.label = label] ELSE prev[i]]
        kept(ann) == IF ann.type = "connection" THEN ann.sourceId \in Ids(prev) /\ ann.targetId \in Ids(prev) ELSE TRUE
    IN  SelectSeq(updated, kept)

\* prev.map(ann => ann.id === id ? {...ann, label} : ann)
handleUpdateAnnotation(prev, id, label) ==
    [i \in 1..Len(prev) |-> IF prev[i].id = id THEN [prev[i] EXCEPT !.label = label] ELSE prev[i]]

\* handleDeleteAnnotation whose cascade looks at sourceId only
handleDeleteAnnotation_SourceOnly(prev, id) ==
    LET notItem(ann) == ann.id # id
        notAttached(ann) == IF ann.type = "connection" THEN ann.sourceId # id ELSE TRUE
    IN  SelectSeq(SelectSeq(prev, notItem), notAttached)

\* prev.filter(ann => ann.id !== id).filter(connections attached to id)
handleDeleteAnnotation(prev, id) ==
    LET notItem(ann) == ann.id # id
        notAttached(ann) == IF ann.type = "connection" THEN ann.sourceId # id /\ ann.targetId # id ELSE TRUE
        nextAnnotations == SelectSeq(prev, notItem)
    IN  SelectSeq(nextAnnotations, notAttached)

\* handleMoveAnnotation lowering toIndex by one after removing an earlier element
handleMoveAnnotation_ShiftAdjusted(prev, fromIndex, toIndex) ==
    IF toIndex < 0 \/ toIndex >= Len(prev) \/ fromIndex = toIndex THEN prev
    ELSE LET cut == SpliceRemoveOne(prev, fromIndex)
             movedItem == IF cut.removed = <<>> THEN Undefined ELSE cut.removed[1]
         IN  SpliceInsert(cut.rest, IF fromIndex < toIndex THEN toIndex - 1 ELSE toIndex, movedItem)

\* fromIndex and toIndex are 0-based, as in the code
handleMoveAnnotation(prev, fromIndex, toIndex) ==
    IF toIndex < 0 \/ toIndex >= Len(prev) \/ fromIndex = toIndex THEN prev
    ELSE LET cut == SpliceRemoveOne(prev, fromIndex)
             movedItem == IF cut.removed = <<>> THEN Undefined ELSE cut.removed[1]
         IN  SpliceInsert(cut.rest, toIndex, movedItem)

\* handleResizeAnnotation that adds a record for an id it does not find
handleResizeAnnotation_Upsert(prev, id, rect) ==
    IF id \in Ids(prev)
    THEN [i \in 1..Len(prev) |-> IF prev[i].id = id THEN [prev[i] EXCEPT !.x = rect.x, !.y = rect.y, !.width = rect.width, !.height = rect.height] ELSE prev[i]]
    ELSE Append(prev, [Undefined EXCEPT !.id = id, !.x = rect.x, !.y = rect.y, !.width = rect.width, !.height = rect.height])

\* prev.map(ann => ann.id === id ? {...ann, ...rect} : ann)
handleResizeAnnotation(prev, id, rect) ==
    [i \in 1..Len(prev) |-> IF prev[i].id = id THEN [prev[i] EXCEPT !.x = rect.x, !.y = rect.y, !.width = rect.width, !.height = rect.height] ELSE prev[i]]

\* prev.map(a => a.id === textId ? {...a, linkedAnnotationId: targetId} : a)
onLinkAnnotation(prev, textId, targetId) ==
    [i \in 1..Len(prev) |-> IF prev[i].id = textId THEN [prev[i] EXCEPT !.linkedAnnotationId = targetId] ELSE prev[i]]

\* annotations.filter(a => a.type === ann.type).findIndex(a => a.id === ann.id) + 1
getTypeIndex(anns, ann) ==
    LET sameType(a) == a.type = ann.type
        typeSiblings == SelectSeq(anns, sameType)
    IN  FindIndexById(typeSiblings, ann.id) + 1

\* the sidebar's list: the annotations of the active tool's tab
filteredAnnotations(anns, mode) ==
    LET shown(a) == IF mode = "node" THEN a.type = "node"
                    ELSE IF mode = "connection" THEN a.type = "connection" \/ a.type = "line"
                    ELSE a.type = "box"
    IN  SelectSeq(anns, shown)

-----------------------------------------------------------------------------
(* AnnotationOverlay: drawing, connecting, resizing and moving. *)

\* handle.includes(c); 'move' is tested with === before any includes
HandleIncludes(handle, c) ==
    CASE handle = "nw" -> c \in {"n", "w"}
      [] handle = "ne" -> c \in {"n", "e"}
      [] handle = "sw" -> c \in {"s", "w"}
      [] handle = "se" -> c \in {"s", "e"}
      [] handle = "move" -> c \in {"m", "o", "v", "e"}
      [] OTHER -> FALSE

\* ResizeRect whose west and north branches apply the delta without the maxDelta cap
ResizeRect_Uncapped(rs, deltaX, deltaY) ==
    IF rs.handle = "move"
    THEN [x |-> rs.originalX + deltaX, y |-> rs.originalY + deltaY, width |-> rs.originalW, height |-> rs.originalH]
    ELSE LET eW == IF HandleIncludes(rs.handle, "e") THEN Max2(MinSize, rs.originalW + deltaX) ELSE rs.originalW
             sH == IF HandleIncludes(rs.handle, "s") THEN Max2(MinSize, rs.originalH + deltaY) ELSE rs.originalH
             west == HandleIncludes(rs.handle, "w")
             north == HandleIncludes(rs.handle, "n")
         IN  [x |-> IF west THEN rs.originalX + deltaX ELSE rs.originalX,
              y |-> IF north THEN rs.originalY + deltaY ELSE rs.originalY,
              width |-> IF west THEN eW - deltaX ELSE eW,
              height |-> IF north THEN sH - deltaY ELSE sH]

\* ResizeRect whose east and south branches add the delta without Math.max(0.5, ...)
ResizeRect_EastSouthNoFloor(rs, deltaX, deltaY) ==
    IF rs.handle = "move"
    THEN [x |-> rs.originalX + deltaX, y |-> rs.originalY + deltaY, width |-> rs.originalW, height |-> rs.originalH]
    ELSE LET eW == IF HandleIncludes(rs.handle, "e") THEN rs.originalW + deltaX ELSE rs.originalW
             sH == IF HandleIncludes(rs.handle, "s") THEN rs.originalH + deltaY ELSE rs.originalH
             validDX == Min2(rs.originalW - MinSize, deltaX)
             validDY == Min2(rs.originalH - MinSize, deltaY)
             west == HandleIncludes(rs.handle, "w")
             north == HandleIncludes(rs.handle, "n")
         IN  [x |-> IF west THEN rs.originalX + validDX ELSE rs.originalX,
              y |-> IF north THEN rs.originalY + validDY ELSE rs.originalY,
              width |-> IF west THEN eW - validDX ELSE eW,
              height |-> IF north THEN sH - validDY ELSE sH]

\* ResizeRect whose west and north branches move the corner and keep width and height
ResizeRect_WestNorthTranslate(rs, deltaX, deltaY) ==
    IF rs.handle = "move"
    THEN [x |-> rs.originalX + deltaX, y |-> rs.originalY + deltaY, width |-> rs.originalW, height |-> rs.originalH]
    ELSE LET eW == IF HandleIncludes(rs.handle, "e") THEN Max2(MinSize, rs.originalW + deltaX) ELSE rs.originalW
             sH == IF HandleIncludes(rs.handle, "s") THEN Max2(MinSize, rs.originalH + deltaY) ELSE rs.originalH
             validDX == Min2(rs.originalW - MinSize, deltaX)
             validDY == Min2(rs.originalH - MinSize, deltaY)
             west == HandleIncludes(rs.handle, "w")
             north == HandleIncludes(rs.handle, "n")
         IN  [x |-> IF west THEN rs.originalX + validDX ELSE rs.originalX,
              y |-> IF north THEN rs.originalY + validDY ELSE rs.originalY,
              width |-> eW,
              height |-> sH]

\* the rectangle handleMouseMove hands to onResizeAnnotation
ResizeRect(rs, deltaX, deltaY) ==
    IF rs.handle = "move"
    THEN [x |-> rs.originalX + deltaX, y |-> rs.originalY + deltaY, width |-> rs.originalW, height |-> rs.originalH]
    ELSE LET eW == IF HandleIncludes(rs.handle, "e") THEN Max2(MinSize, rs.originalW + deltaX) ELSE rs.originalW
             sH == IF HandleIncludes(rs.handle, "s") THEN Max2(MinSize, rs.originalH + deltaY) ELSE rs.originalH
             validDX == Min2(rs.originalW - MinSize, deltaX)
             validDY == Min2(rs.originalH - MinSize, deltaY)
             west == HandleIncludes(rs.handle, "w")
             north == HandleIncludes(rs.handle, "n")
         IN  [x |-> IF west THEN rs.originalX + validDX ELSE rs.originalX,
              y |-> IF north THEN rs.originalY + validDY ELSE rs.originalY,
              width |-> IF west THEN eW - validDX ELSE eW,
              height |-> IF north THEN sH - validDY ELSE sH]

\* NormalizeBox keeping the drag's anchor as the corner
NormalizeBox_AnchorCorner(cb) ==
    [x |-> cb.startX, y |-> cb.startY, width |-> Abs(cb.currX - cb.startX), height |-> Abs(cb.currY - cb.startY)]

\* the box handleMouseUp commits for a finished drag
NormalizeBox(cb) ==
    [x |-> Min2(cb.startX, cb.currX), y |-> Min2(cb.startY, cb.currY), width |-> Abs(cb.currX - cb.startX), height |-> Abs(cb.currY - cb.startY)]

\* the rect the overlay passes to onAddAnnotation, with the viewer's page: 1
NewRect(type, x, y, width, height, sourceId, targetId) ==
    [type |-> type, x |-> x, y |-> y, width |-> width, height |-> height, sourceId |-> sourceId, targetId |-> targetId, page |-> ImagePage]

\* annotations drawn as a div in the boxes and nodes layer (allowedTypes of the image viewer)
Rendered(ann) ==
    ann.page = ImagePage /\ ann.type \in {"box", "node"}

\* the connections the connections layer draws: source and target are looked up by id in
\* the whole collection, and a connection with a missing end is skipped (return null)
DrawnConnections(anns) ==
    LET drawn(ann) == ann.page = ImagePage /\ ann.type = "connection" /\ ann.sourceId \in Ids(anns) /\ ann.targetId \in Ids(anns)
    IN  SelectSeq(anns, drawn)

\* lastOp: the handler, the annotation it was called for, and its pointer arguments;
\* a pointer-down on the canvas keeps its point in p and the pending source and the button in q,
\* a pointer-down on an annotation keeps in q the pending source and isDrawing (1 or 0) it started with,
\* a pointer-leave keeps the dragged annotation and its rectangle at the start of the drag
Op(op, id, p, q) ==
    [op |-> op, id |-> id, p |-> p, q |-> q]

NoPoint == <<0, 0>>

-----------------------------------------------------------------------------
(* ImageViewer and PdfViewer: fit, zoom and pan.  Numbers are exact rationals
   <<numerator, denominator>> in lowest terms with a positive denominator. *)

RECURSIVE GCD(_, _)
GCD(a, b) == IF b = 0 THEN a ELSE GCD(b, a % b)

Rat(n, d) ==
    LET g == GCD(Abs(n), Abs(d))
        sgn == IF d < 0 THEN 0 - 1 ELSE 1
    IN  <<(sgn * n) \div g, (sgn * d) \div g>>

RInt(n) == <<n, 1>>

RAdd(a, b) == Rat(a[1] * b[2] + b[1] * a[2], a[2] * b[2])

RSub(a, b) == Rat(a[1] * b[2] - b[1] * a[2], a[2] * b[2])

RMul(a, b) == Rat(a[1] * b[1], a[2] * b[2])

\* a / b for b other than zero
RDiv(a, b) == Rat(a[1] * b[2], a[2] * b[1])

RLess(a, b) == a[1] * b[2] < b[1] * a[2]

\* Math.min and Math.max
RMin(a, b) == IF RLess(b, a) THEN b ELSE a

RMax(a, b) == IF RLess(a, b) THEN b ELSE a

\* the zoom limits 0.1 and 10.0
MinScale == <<1, 10>>

MaxScale == <<10, 1>>

\* the zoom buttons' step 0.2, as a fraction
ZoomStep == <<1, 5>>

\* const padding = 40
padding == 40

\* delta = -e.deltaY * 0.002: the divisor of deltaY
WheelDivisor == 500

\* Math.min(Math.max(0.1, s), 10.0)
ClampScale(s) == RMin(RMax(MinScale, s), MaxScale)

\* the scale and centred offset both viewers compute on the first load; capped is the image viewer's extra 1.0
FitToContainer(cont, dims, capped) ==
    LET scaleX == Rat(cont[1] - padding, dims[1])
        scaleY == Rat(cont[2] - padding, dims[2])
        contain == RMin(scaleX, scaleY)
        fitScale == IF capped THEN RMin(contain, RInt(1)) ELSE contain
        centerX == RDiv(RSub(RInt(cont[1]), RMul(RInt(dims[1]), fitScale)), RInt(2))
        centerY == RDiv(RSub(RInt(cont[2]), RMul(RInt(dims[2]), fitScale)), RInt(2))
    IN  [scale |-> fitScale, position |-> <<centerX, centerY>>]

\* newPos = anchor - (anchor - pos) * scaleRatio, per axis
ZoomAbout(anchor, pos, scaleRatio) ==
    <<RSub(anchor[1], RMul(RSub(anchor[1], pos[1]), scaleRatio)), RSub(anchor[2], RMul(RSub(anchor[2], pos[2]), scaleRatio))>>

\* onWheel taking the unclamped zoomFactor as the scale ratio
onWheel_RatioFromFactor(current, mouse, deltaY) ==
    LET zoomFactor == RAdd(RInt(1), Rat(0 - deltaY, WheelDivisor))
        newScale == ClampScale(RMul(current.scale, zoomFactor))
    IN  [scale |-> newScale, position |-> ZoomAbout(<<RInt(mouse[1]), RInt(mouse[2])>>, current.position, zoomFactor)]

\* the scale and position onWheel sets, from stateRef.current, the pointer and deltaY
onWheel(current, mouse, deltaY) ==
    LET zoomFactor == RAdd(RInt(1), Rat(0 - deltaY, WheelDivisor))
        newScale == ClampScale(RMul(current.scale, zoomFactor))
        scaleRatio == RDiv(newScale, current.scale)
    IN  [scale |-> newScale, position |-> ZoomAbout(<<RInt(mouse[1]), RInt(mouse[2])>>, current.position, scaleRatio)]

\* the container's centre, the anchor of the zoom buttons
Centre(cont) == <<Rat(cont[1], 2), Rat(cont[2], 2)>>

\* the scale and position handleZoomValues sets, from the rendered scale and position
handleZoomValues(current, cont, delta) ==
    LET newScale == ClampScale(RAdd(current.scale, delta))
        scaleRatio == RDiv(newScale, current.scale)
    IN  [scale |-> newScale, position |-> ZoomAbout(Centre(cont), current.position, scaleRatio)]

\* the logical point drawn at container point p: (p - offset) / scale
LogicalAt(p, pos, sc) ==
    <<RDiv(RSub(p[1], pos[1]), sc), RDiv(RSub(p[2], pos[2]), sc)>>

Origin == <<RInt(0), RInt(0)>>

\* useState defaults of a mounted viewer
ViewMounted(v, cont, dims) ==
    /\ viewer = v
    /\ container = cont
    /\ content = dims
    /\ dimensions = <<>>
    /\ scale = RInt(1)
    /\ position = Origin
    /\ renderedScale = RInt(1)
    /\ stateRef = [scale |-> RInt(1), position |-> Origin, renderedScale |-> RInt(1)]
    /\ shouldCenterRef = TRUE
    /\ isDragging = FALSE
    /\ dragStartRef = <<>>
    /\ renderTimeoutRef = <<>>
    /\ numPages = 0
    /\ pageNumber = 1
    /\ steps = 0
    /\ lastZoom = [kind |-> "none", anchor |-> Origin, input |-> 0]

\* no document: documentId and imgFile are null
NoDoc == 0

\* useState defaults of App's phase, modal and backend state
AppMounted ==
    /\ phase = "annotation"
    /\ modal = [isOpen |-> FALSE, type |-> "alert", documentId |-> NoDoc]
    /\ isLoading = FALSE
    /\ isSubmitting = FALSE
    /\ documentId = NoDoc
    /\ inFlight = 0
    /\ uploads = 0

\* no connection has been drawn
ClipIdle ==
    /\ clipBox = [x |-> 0, y |-> 0, w |-> 0, h |-> 0]
    /\ clipOther = <<0, 0>>
    /\ clipPoint = <<>>

Init ==
    /\ ViewMounted("image", <<1040, 840>>, <<2000, 1600>>)
    /\ AppMounted
    /\ ClipIdle
    /\ annotations = <<>>
    /\ nextId = 0
    /\ isDrawing = FALSE
    /\ toolMode = "box"
    /\ currentBox = <<>>
    /\ pendingSourceId = NoId
    /\ resizeState = <<>>
    /\ finished = 0
    /\ resizes = 0
    /\ lastOp = Op("init", NoId, NoPoint, NoPoint)
    /\ prevAnnotations = <<>>
    /\ calls = 0
    /\ original = <<>>

\* onToggleDrawing={() => setIsDrawing(!isDrawing)}
ToggleDrawing ==
    /\ ~isSubmitting
    /\ isDrawing' = ~isDrawing
    /\ finished' = 0
    /\ lastOp' = Op("toggleDrawing", NoId, NoPoint, NoPoint)
    /\ prevAnnotations' = annotations
    /\ UNCHANGED <<annotations, nextId, toolMode, currentBox, pendingSourceId, resizeState, resizes, calls, original, viewVars, submitVars, clipVars>>

\* the sidebar's tool tabs
SetToolMode ==
    \E mode \in ToolModes :
        /\ mode # toolMode
        /\ toolMode' = mode
        /\ finished' = 0
        /\ lastOp' = Op("setToolMode", NoId, NoPoint, NoPoint)
        /\ prevAnnotations' = annotations
        /\ UNCHANGED <<annotations, nextId, isDrawing, currentBox, pendingSourceId, resizeState, resizes, calls, original, viewVars, submitVars, clipVars>>

\* handleMouseDown whose node branch also starts a box drag and does not finish drawing
MouseDownCanvas_NodeStartsDrag(points, maxIds) ==
    \E pt \in points, button \in Buttons :
        /\ isDrawing
        /\ prevAnnotations' = annotations
        /\ lastOp' = Op("mouseDown", NoId, pt, <<pendingSourceId, button>>)
        /\ IF toolMode = "connection"
           THEN /\ pendingSourceId' = NoId
                /\ finished' = 0
                /\ UNCHANGED <<annotations, nextId, isDrawing, currentBox>>
           ELSE IF button # 0
           THEN /\ finished' = 0
                /\ UNCHANGED <<annotations, nextId, isDrawing, currentBox, pendingSourceId>>
           ELSE IF toolMode = "node"
           THEN /\ nextId < maxIds
                /\ annotations' = handleAddAnnotation(annotations, NewRect("node", pt[1] - logicalSize \div 2, pt[2] - logicalSize \div 2, logicalSize, logicalSize, NoId, NoId), nextId + 1)
                /\ nextId' = nextId + 1
                /\ currentBox' = <<[startX |-> pt[1], startY |-> pt[2], currX |-> pt[1], currY |-> pt[2]]>>
                /\ finished' = 0
                /\ UNCHANGED <<isDrawing, pendingSourceId>>
           ELSE /\ currentBox' = <<[startX |-> pt[1], startY |-> pt[2], currX |-> pt[1], currY |-> pt[2]]>>
                /\ finished' = 0
                /\ UNCHANGED <<annotations, nextId, isDrawing, pendingSourceId>>
        /\ UNCHANGED <<toolMode, resizeState, resizes, calls, original, viewVars, submitVars, clipVars>>

\* handleMouseDown: pointer-down on the overlay outside every annotation div
MouseDownCanvas(points, maxIds) ==
    \E pt \in points, button \in Buttons :
        /\ isDrawing
        /\ prevAnnotations' = annotations
        /\ lastOp' = Op("mouseDown", NoId, pt, <<pendingSourceId, button>>)
        /\ IF toolMode = "connection"
           THEN /\ pendingSourceId' = NoId
                /\ finished' = 0
                /\ UNCHANGED <<annotations, nextId, isDrawing, currentBox>>
           ELSE IF button # 0
           THEN /\ finished' = 0
                /\ UNCHANGED <<annotations, nextId, isDrawing, currentBox, pendingSourceId>>
           ELSE IF toolMode = "node"
           THEN /\ nextId < maxIds
                /\ annotations' = handleAddAnnotation(annotations, NewRect("node", pt[1] - logicalSize \div 2, pt[2] - logicalSize \div 2, logicalSize, logicalSize, NoId, NoId), nextId + 1)
                /\ nextId' = nextId + 1
                /\ isDrawing' = FALSE
                /\ finished' = 1
                /\ UNCHANGED <<currentBox, pendingSourceId>>
           ELSE /\ currentBox' = <<[startX |-> pt[1], startY |-> pt[2], currX |-> pt[1], currY |-> pt[2]]>>
                /\ finished' = 0
                /\ UNCHANGED <<annotations, nextId, isDrawing, pendingSourceId>>
        /\ UNCHANGED <<toolMode, resizeState, resizes, calls, original, viewVars, submitVars, clipVars>>

\* startResizeOrMove without the test that the clicked annotation differs from the pending source
MouseDownAnnotation_AnyTarget(dragHandles, maxIds, maxResizes) ==
    \E i \in 1..Len(annotations), handle \in Handles :
        LET ann == annotations[i] IN
        /\ Rendered(ann)
        /\ handle # "move" => (~isDrawing /\ ann.type # "node")
        /\ prevAnnotations' = annotations
        /\ lastOp' = Op("startResizeOrMove", ann.id, NoPoint, <<pendingSourceId, IF isDrawing THEN 1 ELSE 0>>)
        /\ IF isDrawing /\ toolMode = "connection"
           THEN IF pendingSourceId = NoId
                THEN /\ pendingSourceId' = ann.id
                     /\ finished' = 0
                     /\ UNCHANGED <<annotations, nextId, isDrawing, resizeState, resizes>>
                ELSE IF TRUE
                THEN /\ nextId < maxIds
                     /\ annotations' = handleAddAnnotation(annotations, NewRect("connection", 0, 0, 0, 0, pendingSourceId, ann.id), nextId + 1)
                     /\ nextId' = nextId + 1
                     /\ pendingSourceId' = NoId
                     /\ isDrawing' = FALSE
                     /\ finished' = 1
                     /\ UNCHANGED <<resizeState, resizes>>
                ELSE /\ finished' = 0
                     /\ UNCHANGED <<annotations, nextId, isDrawing, pendingSourceId, resizeState, resizes>>
           ELSE IF isDrawing
           THEN /\ finished' = 0
                /\ UNCHANGED <<annotations, nextId, isDrawing, pendingSourceId, resizeState, resizes>>
           ELSE /\ resizes < maxResizes
                /\ handle \in dragHandles
                /\ resizeState' = <<[id |-> ann.id, handle |-> handle, originalX |-> ann.x, originalY |-> ann.y, originalW |-> ann.width, originalH |-> ann.height]>>
                /\ resizes' = resizes + 1
                /\ finished' = 0
                /\ UNCHANGED <<annotations, nextId, isDrawing, pendingSourceId>>
        /\ UNCHANGED <<toolMode, currentBox, calls, original, viewVars, submitVars, clipVars>>

\* startResizeOrMove that leaves the pending source set after adding the connection
MouseDownAnnotation_KeepsPending(dragHandles, maxIds, maxResizes) ==
    \E i \in 1..Len(annotations), handle \in Handles :
        LET ann == annotations[i] IN
        /\ Rendered(ann)
        /\ handle # "move" => (~isDrawing /\ ann.type # "node")
        /\ prevAnnotations' = annotations
        /\ lastOp' = Op("startResizeOrMove", ann.id, NoPoint, <<pendingSourceId, IF isDrawing THEN 1 ELSE 0>>)
        /\ IF isDrawing /\ toolMode = "connection"
           THEN IF pendingSourceId = NoId
                THEN /\ pendingSourceId' = ann.id
                     /\ finished' = 0
                     /\ UNCHANGED <<annotations, nextId, isDrawing, resizeState, resizes>>
                ELSE IF pendingSourceId # ann.id
                THEN /\ nextId < maxIds
                     /\ annotations' = handleAddAnnotation(annotations, NewRect("connection", 0, 0, 0, 0, pendingSourceId, ann.id), nextId + 1)
                     /\ nextId' = nextId + 1
                     /\ pendingSourceId' = pendingSourceId
                     /\ isDrawing' = FALSE
                     /\ finished' = 1
                     /\ UNCHANGED <<resizeState, resizes>>
                ELSE /\ finished' = 0
                     /\ UNCHANGED <<annotations, nextId, isDrawing, pendingSourceId, resizeState, resizes>>
           ELSE IF isDrawing
           THEN /\ finished' = 0
                /\ UNCHANGED <<annotations, nextId, isDrawing, pendingSourceId, resizeState, resizes>>
           ELSE /\ resizes < maxResizes
                /\ handle \in dragHandles
                /\ resizeState' = <<[id |-> ann.id, handle |-> handle, originalX |-> ann.x, originalY |-> ann.y, originalW |-> ann.width, originalH |-> ann.height]>>
                /\ resizes' = resizes + 1
                /\ finished' = 0
                /\ UNCHANGED <<annotations, nextId, isDrawing, pendingSourceId>>
        /\ UNCHANGED <<toolMode, currentBox, calls, original, viewVars, submitVars, clipVars>>

\* startResizeOrMove: pointer-down on an annotation's body ('move') or on a corner handle
MouseDownAnnotation(dragHandles, maxIds, maxResizes) ==
    \E i \in 1..Len(annotations), handle \in Handles :
        LET ann == annotations[i] IN
        /\ Rendered(ann)
        /\ handle # "move" => (~isDrawing /\ ann.type # "node")
        /\ prevAnnotations' = annotations
        /\ lastOp' = Op("startResizeOrMove", ann.id, NoPoint, <<pendingSourceId, IF isDrawing THEN 1 ELSE 0>>)
        /\ IF isDrawing /\ toolMode = "connection"
           THEN IF pendingSourceId = NoId
                THEN /\ pendingSourceId' = ann.id
                     /\ finished' = 0
                     /\ UNCHANGED <<annotations, nextId, isDrawing, resizeState, resizes>>
                ELSE IF pendingSourceId # ann.id
                THEN /\ nextId < maxIds
                     /\ annotations' = handleAddAnnotation(annotations, NewRect("connection", 0, 0, 0, 0, pendingSourceId, ann.id), nextId + 1)
                     /\ nextId' = nextId + 1
                     /\ pendingSourceId' = NoId
                     /\ isDrawing' = FALSE
                     /\ finished' = 1
                     /\ UNCHANGED <<resizeState, resizes>>
                ELSE /\ finished' = 0
                     /\ UNCHANGED <<annotations, nextId, isDrawing, pendingSourceId, resizeState, resizes>>
           ELSE IF isDrawing
           THEN /\ finished' = 0
                /\ UNCHANGED <<annotations, nextId, isDrawing, pendingSourceId, resizeState, resizes>>
           ELSE /\ resizes < maxResizes
                /\ handle \in dragHandles
                /\ resizeState' = <<[id |-> ann.id, handle |-> handle, originalX |-> ann.x, originalY |-> ann.y, originalW |-> ann.width, originalH |-> ann.height]>>
                /\ resizes' = resizes + 1
                /\ finished' = 0
                /\ UNCHANGED <<annotations, nextId, isDrawing, pendingSourceId>>
        /\ UNCHANGED <<toolMode, currentBox, calls, original, viewVars, submitVars, clipVars>>

\* handleMouseMove while a resize or move drag is active
MouseMoveResize(deltas) ==
    \E d \in deltas :
        /\ resizeState # <<>>
        /\ annotations' = handleResizeAnnotation(annotations, resizeState[1].id, ResizeRect(resizeState[1], d[1], d[2]))
        /\ finished' = 0
        /\ lastOp' = Op("resize", resizeState[1].id, d, NoPoint)
        /\ prevAnnotations' = annotations
        /\ UNCHANGED <<nextId, isDrawing, toolMode, currentBox, pendingSourceId, resizeState, resizes, calls, original, viewVars, submitVars, clipVars>>

\* handleMouseMove while a box is being drawn
MouseMoveDraw(points) ==
    \E pt \in points :
        /\ resizeState = <<>>
        /\ isDrawing
        /\ currentBox # <<>>
        /\ currentBox' = <<[currentBox[1] EXCEPT !.currX = pt[1], !.currY = pt[2]]>>
        /\ finished' = 0
        /\ lastOp' = Op("mouseMove", NoId, NoPoint, NoPoint)
        /\ prevAnnotations' = annotations
        /\ UNCHANGED <<annotations, nextId, isDrawing, toolMode, pendingSourceId, resizeState, resizes, calls, original, viewVars, submitVars, clipVars>>

\* handleMouseUp committing a box whose sides have reached the minimum size
MouseUp_AtLeastMinSize(maxIds) ==
    /\ prevAnnotations' = annotations
    /\ IF resizeState # <<>>
       THEN /\ resizeState' = <<>>
            /\ finished' = 0
            /\ lastOp' = Op("mouseUpResize", NoId, NoPoint, NoPoint)
            /\ UNCHANGED <<annotations, nextId, isDrawing, currentBox>>
       ELSE /\ isDrawing
            /\ currentBox # <<>>
            /\ toolMode = "box"
            /\ LET cb == currentBox[1]
                   box == NormalizeBox(cb)
               IN  /\ IF box.width >= MinSize /\ box.height >= MinSize
                      THEN /\ nextId < maxIds
                           /\ annotations' = handleAddAnnotation(annotations, NewRect("box", box.x, box.y, box.width, box.height, NoId, NoId), nextId + 1)
                           /\ nextId' = nextId + 1
                      ELSE UNCHANGED <<annotations, nextId>>
                   /\ lastOp' = Op("mouseUpBox", NoId, <<cb.startX, cb.startY>>, <<cb.currX, cb.currY>>)
            /\ currentBox' = <<>>
            /\ isDrawing' = FALSE
            /\ finished' = 1
            /\ UNCHANGED resizeState
    /\ UNCHANGED <<toolMode, pendingSourceId, resizes, calls, original, viewVars, submitVars, clipVars>>

\* handleMouseUp
MouseUp(maxIds) ==
    /\ prevAnnotations' = annotations
    /\ IF resizeState # <<>>
       THEN /\ resizeState' = <<>>
            /\ finished' = 0
            /\ lastOp' = Op("mouseUpResize", NoId, NoPoint, NoPoint)
            /\ UNCHANGED <<annotations, nextId, isDrawing, currentBox>>
       ELSE /\ isDrawing
            /\ currentBox # <<>>
            /\ toolMode = "box"
            /\ LET cb == currentBox[1]
                   box == NormalizeBox(cb)
               IN  /\ IF box.width > MinSize /\ box.height > MinSize
                      THEN /\ nextId < maxIds
                           /\ annotations' = handleAddAnnotation(annotations, NewRect("box", box.x, box.y, box.width, box.height, NoId, NoId), nextId + 1)
                           /\ nextId' = nextId + 1
                      ELSE UNCHANGED <<annotations, nextId>>
                   /\ lastOp' = Op("mouseUpBox", NoId, <<cb.startX, cb.startY>>, <<cb.currX, cb.currY>>)
            /\ currentBox' = <<>>
            /\ isDrawing' = FALSE
            /\ finished' = 1
            /\ UNCHANGED resizeState
    /\ UNCHANGED <<toolMode, pendingSourceId, resizes, calls, original, viewVars, submitVars, clipVars>>

\* handleMouseMove when no drag is in progress: it returns without setting anything
MouseMoveIdle ==
    /\ resizeState = <<>>
    /\ ~(isDrawing /\ currentBox # <<>>)
    /\ finished' = 0
    /\ lastOp' = Op("mouseMoveIdle", NoId, NoPoint, NoPoint)
    /\ prevAnnotations' = annotations
    /\ UNCHANGED <<annotations, nextId, isDrawing, toolMode, currentBox, pendingSourceId, resizeState, resizes, calls, original, viewVars, submitVars, clipVars>>

\* handleMouseUp when neither a resize nor a box drag is in progress: it returns without setting anything
MouseUpIdle ==
    /\ resizeState = <<>>
    /\ ~(isDrawing /\ currentBox # <<>> /\ toolMode = "box")
    /\ finished' = 0
    /\ lastOp' = Op("mouseUpIdle", NoId, NoPoint, NoPoint)
    /\ prevAnnotations' = annotations
    /\ UNCHANGED <<annotations, nextId, isDrawing, toolMode, currentBox, pendingSourceId, resizeState, resizes, calls, original, viewVars, submitVars, clipVars>>

\* onMouseLeave of the overlay
MouseLeave ==
    /\ currentBox' = <<>>
    /\ resizeState' = <<>>
    /\ finished' = 0
    /\ lastOp' = IF resizeState = <<>> THEN Op("mouseLeave", NoId, NoPoint, NoPoint)
                  ELSE Op("mouseLeave", resizeState[1].id, <<resizeState[1].originalX, resizeState[1].originalY>>, <<resizeState[1].originalW, resizeState[1].originalH>>)
    /\ prevAnnotations' = annotations
    /\ UNCHANGED <<annotations, nextId, isDrawing, toolMode, pendingSourceId, resizes, calls, original, viewVars, submitVars, clipVars>>

\* the sidebar's label dropdown, shown for the boxes of the list
UpdateAnnotation ==
    \E i \in 1..Len(annotations), label \in Labels :
        /\ toolMode = "box"
        /\ annotations[i].type = "box"
        /\ annotations' = handleUpdateAnnotation(annotations, annotations[i].id, label)
        /\ finished' = 0
        /\ lastOp' = Op("update", annotations[i].id, NoPoint, NoPoint)
        /\ prevAnnotations' = annotations
        /\ UNCHANGED <<nextId, isDrawing, toolMode, currentBox, pendingSourceId, resizeState, resizes, calls, original, viewVars, submitVars, clipVars>>

\* the sidebar's delete button, shown for every annotation of the list
DeleteAnnotation ==
    \E i \in 1..Len(annotations) :
        /\ Len(filteredAnnotations(<<annotations[i]>>, toolMode)) = 1
        /\ annotations' = handleDeleteAnnotation(annotations, annotations[i].id)
        /\ finished' = 0
        /\ lastOp' = Op("delete", annotations[i].id, NoPoint, NoPoint)
        /\ prevAnnotations' = annotations
        /\ UNCHANGED <<nextId, isDrawing, toolMode, currentBox, pendingSourceId, resizeState, resizes, calls, original, viewVars, submitVars, clipVars>>

\* the sidebar's order input: handleMove(index, newIndexStr) calls onMoveAnnotation(index, newIndex - 1)
MoveAnnotation ==
    \E index \in 0..(Len(annotations) - 1), newIndex \in 0..(Len(annotations) + 1) :
        /\ annotations' = handleMoveAnnotation(annotations, index, newIndex - 1)
        /\ finished' = 0
        /\ lastOp' = Op("reorder", NoId, NoPoint, NoPoint)
        /\ prevAnnotations' = annotations
        /\ UNCHANGED <<nextId, isDrawing, toolMode, currentBox, pendingSourceId, resizeState, resizes, calls, original, viewVars, submitVars, clipVars>>

Next ==
    \/ ToggleDrawing
    \/ SetToolMode
    \/ MouseDownCanvas(DownPoints, MaxIds)
    \/ MouseDownAnnotation(NoHandles, MaxIds, 0)
    \/ MouseMoveDraw(MovePoints)
    \/ MouseUp(MaxIds)
    \/ MouseLeave
    \/ UpdateAnnotation
    \/ DeleteAnnotation
    \/ MoveAnnotation

Spec == Init /\ [][Next]_vars

\* the same handlers with a single annotation and more pointer positions and displacements
NextGeom ==
    \/ ToggleDrawing
    \/ SetToolMode
    \/ MouseDownCanvas(GeomPoints, GeomMaxIds)
    \/ MouseDownAnnotation(Handles, GeomMaxIds, GeomMaxResizes)
    \/ MouseMoveResize(GeomDeltas)
    \/ MouseMoveDraw(GeomPoints)
    \/ MouseUp(GeomMaxIds)
    \/ MouseLeave

SpecGeom == Init /\ [][NextGeom]_vars

\* drawing on the canvas, with the pointer events that find nothing to do
NextDraw ==
    \/ ToggleDrawing
    \/ SetToolMode
    \/ MouseDownCanvas(GeomPoints, MaxIds)
    \/ MouseMoveDraw(GeomPoints)
    \/ MouseMoveIdle
    \/ MouseUp(MaxIds)
    \/ MouseUpIdle
    \/ MouseLeave

SpecDraw == Init /\ [][NextDraw]_vars

-----------------------------------------------------------------------------
(* The store handlers called directly, with any arguments a caller can pass. *)

\* the ids a caller can hold: every id handed out so far, deleted ones included
KnownIds == 1..nextId

\* rects passed to handleAddAnnotation; (40,40) to (100,100) for the shapes with an area
StoreRects ==
    {NewRect(type, 160, 160, 240, 240, NoId, NoId) : type \in {"box", "node", "text", "line"}}
    \cup {NewRect("connection", 0, 0, 0, 0, src, tgt) : src \in KnownIds, tgt \in KnownIds}

StoreUnchanged == UNCHANGED <<isDrawing, toolMode, currentBox, pendingSourceId, resizeState, finished, resizes, original, viewVars, submitVars, clipVars>>

StoreAdd ==
    \E rect \in StoreRects :
        /\ calls < MaxCalls
        /\ annotations' = handleAddAnnotation(annotations, rect, nextId + 1)
        /\ nextId' = nextId + 1
        /\ lastOp' = Op("add", nextId + 1, NoPoint, NoPoint)
        /\ prevAnnotations' = annotations
        /\ calls' = calls + 1
        /\ StoreUnchanged

StoreUpdate ==
    \E id \in KnownIds, label \in Labels :
        /\ calls < MaxCalls
        /\ annotations' = handleUpdateAnnotation(annotations, id, label)
        /\ lastOp' = Op("update", id, NoPoint, NoPoint)
        /\ prevAnnotations' = annotations
        /\ calls' = calls + 1
        /\ UNCHANGED nextId
        /\ StoreUnchanged

StoreDelete ==
    \E id \in KnownIds :
        /\ calls < MaxCalls
        /\ annotations' = handleDeleteAnnotation(annotations, id)
        /\ lastOp' = Op("delete", id, NoPoint, NoPoint)
        /\ prevAnnotations' = annotations
        /\ calls' = calls + 1
        /\ UNCHANGED nextId
        /\ StoreUnchanged

\* (42,41) with width 0.75 and height 1
ResizeArgs == {[x |-> 168, y |-> 164, width |-> 3, height |-> 4]}

StoreResize ==
    \E id \in KnownIds, rect \in ResizeArgs :
        /\ calls < MaxCalls
        /\ annotations' = handleResizeAnnotation(annotations, id, rect)
        /\ lastOp' = Op("resize", id, NoPoint, NoPoint)
        /\ prevAnnotations' = annotations
        /\ calls' = calls + 1
        /\ UNCHANGED nextId
        /\ StoreUnchanged

\* the text being linked may be gone by now; the target is the annotation that was clicked
StoreLink ==
    \E textId \in KnownIds, targetId \in Ids(annotations) :
        /\ calls < MaxCalls
        /\ annotations' = onLinkAnnotation(annotations, textId, targetId)
        /\ lastOp' = Op("link", textId, <<targetId, 0>>, NoPoint)
        /\ prevAnnotations' = annotations
        /\ calls' = calls + 1
        /\ UNCHANGED nextId
        /\ StoreUnchanged

\* index is the position of a listed annotation; newIndex is whatever number was typed
StoreReorder ==
    \E index \in 0..(Len(annotations) - 1), newIndex \in 0..(Len(annotations) + 1) :
        /\ calls < MaxCalls
        /\ annotations' = handleMoveAnnotation(annotations, index, newIndex - 1)
        /\ lastOp' = Op("reorder", NoId, <<index, newIndex - 1>>, NoPoint)
        /\ prevAnnotations' = annotations
        /\ calls' = calls + 1
        /\ UNCHANGED nextId
        /\ StoreUnchanged

NextStore ==
    \/ StoreAdd
    \/ StoreUpdate
    \/ StoreDelete
    \/ StoreResize
    \/ StoreLink
    \/ StoreReorder

SpecStore == Init /\ [][NextStore]_vars

-----------------------------------------------------------------------------
(* handleMoveAnnotation applied to any pair of integers, then applied back. *)

\* the annotation with this id in the collections the reorder specification starts from
Sample(id) ==
    IF id % 3 = 0 THEN [Undefined EXCEPT !.id = id, !.type = "connection", !.sourceId = id - 2, !.targetId = id - 1, !.label = "connection", !.page = ImagePage]
    ELSE [Undefined EXCEPT !.id = id, !.type = (IF id % 3 = 1 THEN "box" ELSE "node"), !.x = 160, !.y = 160, !.width = 4, !.height = 4, !.label = (IF id % 3 = 1 THEN "" ELSE "node"), !.page = ImagePage]

\* every collection of up to MaxLen annotations with different ids, in every order
Collections ==
    LET idSeqs == UNION {[1..n -> 1..MaxLen] : n \in 0..MaxLen}
        distinct == {q \in idSeqs : \A i, j \in DOMAIN q : i # j => q[i] # q[j]}
    IN  {[i \in DOMAIN q |-> Sample(q[i])] : q \in distinct}

InitReorder ==
    /\ ViewMounted("image", <<1040, 840>>, <<2000, 1600>>)
    /\ AppMounted
    /\ ClipIdle
    /\ annotations \in Collections
    /\ original = annotations
    /\ nextId = MaxLen
    /\ isDrawing = FALSE
    /\ toolMode = "box"
    /\ currentBox = <<>>
    /\ pendingSourceId = NoId
    /\ resizeState = <<>>
    /\ finished = 0
    /\ resizes = 0
    /\ lastOp = Op("init", NoId, NoPoint, NoPoint)
    /\ prevAnnotations = annotations
    /\ calls = 0

\* reorder(fromIndex, toIndex) for any two integers around the collection's range
ReorderApply ==
    \E fromIndex \in (0 - 2)..(Len(annotations) + 1), toIndex \in (0 - 2)..(Len(annotations) + 1) :
        /\ calls = 0
        /\ annotations' = handleMoveAnnotation(annotations, fromIndex, toIndex)
        /\ lastOp' = Op("reorder", NoId, <<fromIndex, toIndex>>, NoPoint)
        /\ prevAnnotations' = annotations
        /\ calls' = 1
        /\ UNCHANGED <<nextId, isDrawing, toolMode, currentBox, pendingSourceId, resizeState, finished, resizes, original, viewVars, submitVars, clipVars>>

\* reorder(toIndex, fromIndex) after reorder(fromIndex, toIndex)
ReorderBack ==
    /\ calls = 1
    /\ annotations' = handleMoveAnnotation(annotations, lastOp.p[2], lastOp.p[1])
    /\ lastOp' = Op("reorderBack", NoId, lastOp.p, NoPoint)
    /\ prevAnnotations' = annotations
    /\ calls' = 2
    /\ UNCHANGED <<nextId, isDrawing, toolMode, currentBox, pendingSourceId, resizeState, finished, resizes, original, viewVars, submitVars, clipVars>>

NextReorder ==
    \/ ReorderApply
    \/ ReorderBack

SpecReorder == InitReorder /\ [][NextReorder]_vars

-----------------------------------------------------------------------------
(* The viewer on its own: a document loads, the user zooms and pans. *)

\* zoom and pan events in one behaviour
MaxSteps == 2

\* pages of the loaded PDF
NumPages == 2

Viewers == {"image", "pdf"}

\* the viewer pane's width and height in pixels
Containers == {<<1040, 840>>}

\* natural size of the image, or original size of the PDF page
Contents == {<<12000, 9000>>, <<2000, 1600>>, <<50, 50>>}

\* pointer positions relative to the container
WheelPoints == {<<0, 0>>, <<700, 100>>}

\* deltaY of a wheel event: zoom factors 1.2, 1, 0.8, -0.2 and 10
WheelDeltas == {0 - 100, 0, 100, 600, 0 - 4500}

\* clientX, clientY of the pan gesture
PanPoints == {<<10, 10>>, <<300, 200>>}

Current == [scale |-> scale, position |-> position, renderedScale |-> renderedScale]

NoZoom == [kind |-> "none", anchor |-> Origin, input |-> 0]

InitView ==
    /\ \E v \in Viewers, cont \in Containers, dims \in Contents : ViewMounted(v, cont, dims)
    /\ AppMounted
    /\ ClipIdle
    /\ annotations = <<>>
    /\ nextId = 0
    /\ isDrawing = FALSE
    /\ toolMode = "box"
    /\ currentBox = <<>>
    /\ pendingSourceId = NoId
    /\ resizeState = <<>>
    /\ finished = 0
    /\ resizes = 0
    /\ lastOp = Op("init", NoId, NoPoint, NoPoint)
    /\ prevAnnotations = <<>>
    /\ calls = 0
    /\ original = <<>>

\* the last step was an image or page load callback
Loaded == [kind |-> "load", anchor |-> Origin, input |-> 0]

\* handleImageLoad fitting on every load, whatever shouldCenterRef holds
ImageLoad_AlwaysFit ==
    /\ viewer = "image"
    /\ dimensions' = <<content>>
    /\ LET fit == FitToContainer(container, content, TRUE)
       IN  /\ scale' = fit.scale
           /\ position' = fit.position
           /\ shouldCenterRef' = FALSE
    /\ lastZoom' = Loaded
    /\ UNCHANGED <<storeVars, submitVars, clipVars, viewer, container, content, renderedScale, stateRef, isDragging, dragStartRef, renderTimeoutRef, numPages, pageNumber, steps>>

\* ImageViewer.handleImageLoad
ImageLoad ==
    /\ viewer = "image"
    /\ dimensions' = <<content>>
    /\ IF shouldCenterRef
       THEN LET fit == FitToContainer(container, content, TRUE)
            IN  /\ scale' = fit.scale
                /\ position' = fit.position
                /\ shouldCenterRef' = FALSE
       ELSE UNCHANGED <<scale, position, shouldCenterRef>>
    /\ lastZoom' = Loaded
    /\ UNCHANGED <<storeVars, submitVars, clipVars, viewer, container, content, renderedScale, stateRef, isDragging, dragStartRef, renderTimeoutRef, numPages, pageNumber, steps>>

\* PdfViewer.onDocumentLoadSuccess
DocumentLoad ==
    /\ viewer = "pdf"
    /\ numPages = 0
    /\ numPages' = NumPages
    /\ pageNumber' = 1
    /\ scale' = RInt(1)
    /\ renderedScale' = RInt(1)
    /\ shouldCenterRef' = TRUE
    /\ lastZoom' = NoZoom
    /\ UNCHANGED <<storeVars, submitVars, clipVars, viewer, container, content, dimensions, position, stateRef, isDragging, dragStartRef, renderTimeoutRef, steps>>

\* PdfViewer.onPageLoadSuccess
PageLoad ==
    /\ viewer = "pdf"
    /\ numPages > 0
    /\ dimensions' = <<content>>
    /\ IF shouldCenterRef
       THEN LET fit == FitToContainer(container, content, FALSE)
            IN  /\ scale' = fit.scale
                /\ renderedScale' = fit.scale
                /\ position' = fit.position
                /\ shouldCenterRef' = FALSE
       ELSE UNCHANGED <<scale, renderedScale, position, shouldCenterRef>>
    /\ lastZoom' = Loaded
    /\ UNCHANGED <<storeVars, submitVars, clipVars, viewer, container, content, stateRef, isDragging, dragStartRef, renderTimeoutRef, numPages, pageNumber, steps>>

\* PdfViewer.changePage(offset)
ChangePage ==
    \E offset \in {0 - 1, 1} :
        /\ viewer = "pdf"
        /\ numPages > 0
        /\ pageNumber' = Min2(Max2(1, pageNumber + offset), numPages)
        /\ lastZoom' = NoZoom
        /\ UNCHANGED <<storeVars, submitVars, clipVars, viewer, container, content, dimensions, scale, position, renderedScale, stateRef, shouldCenterRef, isDragging, dragStartRef, renderTimeoutRef, numPages, steps>>

\* the wheel listener of either viewer
Wheel ==
    \E mouse \in WheelPoints, deltaY \in WheelDeltas :
        /\ steps < MaxSteps
        /\ LET zoomed == onWheel(stateRef, mouse, deltaY)
           IN  /\ scale' = zoomed.scale
               /\ position' = zoomed.position
        /\ lastZoom' = [kind |-> "wheel", anchor |-> <<RInt(mouse[1]), RInt(mouse[2])>>, input |-> deltaY]
        /\ steps' = steps + 1
        /\ UNCHANGED <<storeVars, submitVars, clipVars, viewer, container, content, dimensions, renderedScale, stateRef, shouldCenterRef, isDragging, dragStartRef, renderTimeoutRef, numPages, pageNumber>>

\* the zoom buttons: handleZoomValues(0.2) and handleZoomValues(-0.2), with the rendered scale and position
ZoomButton ==
    \E delta \in {ZoomStep, RSub(RInt(0), ZoomStep)} :
        /\ steps < MaxSteps
        /\ LET zoomed == handleZoomValues(stateRef, container, delta)
           IN  /\ scale' = zoomed.scale
               /\ position' = zoomed.position
        /\ lastZoom' = [kind |-> "button", anchor |-> Centre(container), input |-> delta[1]]
        /\ steps' = steps + 1
        /\ UNCHANGED <<storeVars, submitVars, clipVars, viewer, container, content, dimensions, renderedScale, stateRef, shouldCenterRef, isDragging, dragStartRef, renderTimeoutRef, numPages, pageNumber>>

\* the viewer's handleMouseDown: a pan starts
PanDown ==
    \E c \in PanPoints :
        /\ ~isDrawing
        /\ ~isDragging
        /\ isDragging' = TRUE
        /\ dragStartRef' = <<<<RSub(RInt(c[1]), stateRef.position[1]), RSub(RInt(c[2]), stateRef.position[2])>>>>
        /\ lastZoom' = NoZoom
        /\ UNCHANGED <<storeVars, submitVars, clipVars, viewer, container, content, dimensions, scale, position, renderedScale, stateRef, shouldCenterRef, renderTimeoutRef, numPages, pageNumber, steps>>

\* the viewer's handleMouseMove while panning
PanMove ==
    \E c \in PanPoints :
        /\ steps < MaxSteps
        /\ isDragging
        /\ dragStartRef # <<>>
        /\ position' = <<RSub(RInt(c[1]), dragStartRef[1][1]), RSub(RInt(c[2]), dragStartRef[1][2])>>
        /\ lastZoom' = NoZoom
        /\ steps' = steps + 1
        /\ UNCHANGED <<storeVars, submitVars, clipVars, viewer, container, content, dimensions, scale, renderedScale, stateRef, shouldCenterRef, isDragging, dragStartRef, renderTimeoutRef, numPages, pageNumber>>

\* the viewer's handleMouseUp
PanUp ==
    /\ isDragging
    /\ isDragging' = FALSE
    /\ dragStartRef' = <<>>
    /\ lastZoom' = NoZoom
    /\ UNCHANGED <<storeVars, submitVars, clipVars, viewer, container, content, dimensions, scale, position, renderedScale, stateRef, shouldCenterRef, renderTimeoutRef, numPages, pageNumber, steps>>

\* a render commits: the layout effect refreshes stateRef, the debounce effect re-arms its timer
Render ==
    /\ stateRef # Current
    /\ stateRef' = Current
    /\ renderTimeoutRef' = IF viewer = "pdf" /\ (scale # stateRef.scale \/ renderedScale # stateRef.renderedScale)
                           THEN IF scale # renderedScale THEN <<scale>> ELSE <<>>
                           ELSE renderTimeoutRef
    /\ lastZoom' = NoZoom
    /\ UNCHANGED <<storeVars, submitVars, clipVars, viewer, container, content, dimensions, scale, position, renderedScale, shouldCenterRef, isDragging, dragStartRef, numPages, pageNumber, steps>>

\* the debounce timer fires: setRenderedScale(scale) with the scale of the render that armed it
RenderTimeout ==
    /\ renderTimeoutRef # <<>>
    /\ renderedScale' = renderTimeoutRef[1]
    /\ renderTimeoutRef' = <<>>
    /\ lastZoom' = NoZoom
    /\ UNCHANGED <<storeVars, submitVars, clipVars, viewer, container, content, dimensions, scale, position, stateRef, shouldCenterRef, isDragging, dragStartRef, numPages, pageNumber, steps>>

NextView ==
    \/ ImageLoad
    \/ DocumentLoad
    \/ PageLoad
    \/ ChangePage
    \/ Wheel
    \/ ZoomButton
    \/ PanDown
    \/ PanMove
    \/ PanUp
    \/ Render
    \/ RenderTimeout

SpecView == InitView /\ [][NextView]_vars

\* ---------------------------------------------------------------------
\* App: upload, phase switch, confirmation modal and submission
\* ---------------------------------------------------------------------

\* documents uploaded in one run
MaxUploads == 2

\* POST /submit requests the run lets be outstanding together
MaxInFlight == 2

\* what the header and the sidebars can be clicked on: a document is shown,
\* neither the loading screen nor the modal covers the page
PageActive ==
    /\ documentId # NoDoc
    /\ ~isLoading
    /\ ~modal.isOpen

\* the "Reset to Home" block of executeSubmit and of the Close File button
ResetToHome ==
    /\ annotations' = <<>>
    /\ documentId' = NoDoc
    /\ phase' = "annotation"

SubmitUnchanged == UNCHANGED <<isDrawing, toolMode, currentBox, pendingSourceId, resizeState, finished, resizes, calls, original, viewVars, clipVars>>

\* handleFileUpload up to its await: the upload form is shown while no file is
UploadStart ==
    /\ documentId = NoDoc
    /\ ~isLoading
    /\ ~modal.isOpen
    /\ uploads < MaxUploads
    /\ isLoading' = TRUE
    /\ uploads' = uploads + 1
    /\ lastOp' = Op("upload", NoId, NoPoint, NoPoint)
    /\ prevAnnotations' = annotations
    /\ UNCHANGED <<annotations, nextId, phase, modal, isSubmitting, documentId, inFlight>>
    /\ SubmitUnchanged

\* handleFileUpload after its await: success, or a failure or a throw
UploadResponse ==
    \E ok \in BOOLEAN :
        /\ isLoading
        /\ IF ok
           THEN /\ documentId' = uploads
                /\ annotations' = <<>>
                /\ phase' = "annotation"
           ELSE UNCHANGED <<documentId, annotations, phase>>
        /\ isLoading' = FALSE
        /\ lastOp' = Op("uploaded", NoId, NoPoint, NoPoint)
        /\ prevAnnotations' = annotations
        /\ UNCHANGED <<nextId, modal, isSubmitting, uploads, inFlight>>
        /\ SubmitUnchanged

\* the overlay's onAddAnnotation in the annotation phase
AddAnnotation ==
    \E type \in {"box", "node"} :
        /\ PageActive
        /\ phase = "annotation"
        /\ nextId < MaxIds
        /\ annotations' = handleAddAnnotation(annotations, NewRect(type, 160, 160, 240, 240, NoId, NoId), nextId + 1)
        /\ nextId' = nextId + 1
        /\ lastOp' = Op("add", nextId + 1, NoPoint, NoPoint)
        /\ prevAnnotations' = annotations
        /\ UNCHANGED submitVars
        /\ SubmitUnchanged

\* the sidebar's label select in the annotation phase
LabelAnnotation ==
    \E i \in 1..Len(annotations), label \in Labels :
        /\ PageActive
        /\ phase = "annotation"
        /\ annotations' = handleUpdateAnnotation(annotations, annotations[i].id, label)
        /\ lastOp' = Op("update", annotations[i].id, NoPoint, NoPoint)
        /\ prevAnnotations' = annotations
        /\ UNCHANGED <<nextId, submitVars>>
        /\ SubmitUnchanged

\* handleSubmit, the CONTINUE button of AnnotationSidebar (disabled={isSubmitting})
handleSubmit ==
    /\ PageActive
    /\ phase = "annotation"
    /\ ~isSubmitting
    /\ IF \E i \in 1..Len(annotations) : annotations[i].label = ""
       THEN /\ modal' = [isOpen |-> TRUE, type |-> "alert", documentId |-> NoDoc]
            /\ UNCHANGED phase
       ELSE /\ phase' = "transcription"
            /\ UNCHANGED modal
    /\ lastOp' = Op("continue", NoId, NoPoint, NoPoint)
    /\ prevAnnotations' = annotations
    /\ UNCHANGED <<annotations, nextId, isLoading, isSubmitting, documentId, inFlight, uploads>>
    /\ SubmitUnchanged

\* onBack of TranscriptionSidebar: setPhase('annotation')
onBack ==
    /\ PageActive
    /\ phase = "transcription"
    /\ phase' = "annotation"
    /\ lastOp' = Op("back", NoId, NoPoint, NoPoint)
    /\ prevAnnotations' = annotations
    /\ UNCHANGED <<annotations, nextId, modal, isLoading, isSubmitting, documentId, inFlight, uploads>>
    /\ SubmitUnchanged

\* handleFinalSubmit, the FINISH TRANSCRIPTION button: it has no disabled
\* attribute, and the modal keeps the executeSubmit of this render
handleFinalSubmit ==
    /\ PageActive
    /\ phase = "transcription"
    /\ modal' = [isOpen |-> TRUE, type |-> "confirm", documentId |-> documentId]
    /\ lastOp' = Op("finish", NoId, NoPoint, NoPoint)
    /\ prevAnnotations' = annotations
    /\ UNCHANGED <<annotations, nextId, phase, isLoading, isSubmitting, documentId, inFlight, uploads>>
    /\ SubmitUnchanged

\* closeModal: the cancel button of a confirm modal, the only button of an alert
closeModal ==
    /\ modal.isOpen
    /\ modal' = [modal EXCEPT !.isOpen = FALSE]
    /\ lastOp' = Op("closeModal", NoId, NoPoint, NoPoint)
    /\ prevAnnotations' = annotations
    /\ UNCHANGED <<annotations, nextId, phase, isLoading, isSubmitting, documentId, inFlight, uploads>>
    /\ SubmitUnchanged

\* executeSubmit up to its await, the SUBMIT ALL button of the confirm modal
executeSubmit ==
    /\ modal.isOpen
    /\ modal.type = "confirm"
    /\ inFlight < MaxInFlight
    /\ modal' = [modal EXCEPT !.isOpen = FALSE]
    /\ IF modal.documentId = NoDoc
       THEN UNCHANGED <<isSubmitting, inFlight>>
       ELSE /\ isSubmitting' = TRUE
            /\ inFlight' = inFlight + 1
    /\ lastOp' = Op("submit", NoId, NoPoint, NoPoint)
    /\ prevAnnotations' = annotations
    /\ UNCHANGED <<annotations, nextId, phase, isLoading, documentId, uploads>>
    /\ SubmitUnchanged

\* executeSubmit after its await: success, or a failure or a throw
SubmitResponse ==
    \E ok \in BOOLEAN :
        /\ inFlight > 0
        /\ IF ok THEN ResetToHome ELSE UNCHANGED <<annotations, documentId, phase>>
        /\ isSubmitting' = FALSE
        /\ inFlight' = inFlight - 1
        /\ lastOp' = Op("submitted", NoId, NoPoint, NoPoint)
        /\ prevAnnotations' = annotations
        /\ UNCHANGED <<nextId, modal, isLoading, uploads>>
        /\ SubmitUnchanged

\* the Close File button of the header
CloseFile ==
    /\ PageActive
    /\ ResetToHome
    /\ lastOp' = Op("closeFile", NoId, NoPoint, NoPoint)
    /\ prevAnnotations' = annotations
    /\ UNCHANGED <<nextId, modal, isLoading, isSubmitting, inFlight, uploads>>
    /\ SubmitUnchanged

NextSubmit ==
    \/ UploadStart
    \/ UploadResponse
    \/ AddAnnotation
    \/ LabelAnnotation
    \/ handleSubmit
    \/ onBack
    \/ handleFinalSubmit
    \/ closeModal
    \/ executeSubmit
    \/ SubmitResponse
    \/ CloseFile

SpecSubmit == Init /\ [][NextSubmit]_vars

\* ---------------------------------------------------------------------
\* AnnotationOverlay: clipping a connection line at a box
\* ---------------------------------------------------------------------

\* the geometry of the boxes a connection is clipped at: equal sides, wide, tall,
\* and 2 pixels wide with a height of 1000 and of 2001 times the width
ClipBoxes ==
    {[x |-> 100, y |-> 100, w |-> 40, h |-> 40],
     [x |-> 100, y |-> 100, w |-> 80, h |-> 20],
     [x |-> 100, y |-> 100, w |-> 20, h |-> 80],
     [x |-> 100, y |-> 100, w |-> 2, h |-> 2000],
     [x |-> 100, y |-> 100, w |-> 2, h |-> 4002]}

\* where the other end's centre lies, relative to the centre of the box
ClipOffsets == {0 - 80, 0 - 20, 0, 20, 80}

\* cx: x + w / 2, cy: y + h / 2 of getScreenGeom
CenterOf(box) == <<box.x + box.w \div 2, box.y + box.h \div 2>>

\* getRectIntersection(box, center, otherCenter); slope and boxRatio as exact fractions
getRectIntersection(box, center, otherCenter) ==
    LET dx == otherCenter[1] - center[1]
        dy == otherCenter[2] - center[2]
        slope == IF Abs(dx) * 1000 > 1 THEN Rat(Abs(dy), Abs(dx)) ELSE RInt(1000)
        boxRatio == Rat(box.h, box.w)
    IN  IF RLess(slope, boxRatio)
        THEN IF dx > 0
             THEN <<box.x + box.w, center[2]>>
             ELSE <<box.x, center[2]>>
        ELSE IF dy > 0
             THEN <<center[1], box.y + box.h>>
             ELSE <<center[1], box.y>>

\* the connections layer is about to clip a line at a box
InitClip ==
    /\ ViewMounted("image", <<1040, 840>>, <<2000, 1600>>)
    /\ AppMounted
    /\ annotations = <<>>
    /\ nextId = 0
    /\ isDrawing = FALSE
    /\ toolMode = "box"
    /\ currentBox = <<>>
    /\ pendingSourceId = NoId
    /\ resizeState = <<>>
    /\ finished = 0
    /\ resizes = 0
    /\ lastOp = Op("init", NoId, NoPoint, NoPoint)
    /\ prevAnnotations = <<>>
    /\ calls = 0
    /\ original = <<>>
    /\ clipBox \in ClipBoxes
    /\ \E ox \in ClipOffsets, oy \in ClipOffsets :
           clipOther = <<CenterOf(clipBox)[1] + ox, CenterOf(clipBox)[2] + oy>>
    /\ clipPoint = <<>>

\* startPoint = getRectIntersection(sGeom, sCenter, tCenter)
Clip ==
    /\ clipPoint = <<>>
    /\ clipPoint' = <<getRectIntersection(clipBox, CenterOf(clipBox), clipOther)>>
    /\ UNCHANGED <<storeVars, viewVars, submitVars, clipBox, clipOther>>

NextClip == Clip

SpecClip == InitClip /\ [][NextClip]_vars

-----------------------------------------------------------------------------
(* Properties of the viewer. *)

\* C3: for wheel zoom (anchor = pointer, multiplicative factor) and button zoom
\* (anchor = container centre, step 0.2) the logical point under the anchor is the
\* same before and after the zoom, also when the new scale is clamped at 0.1 or 10.
\* Before is the rendered scale and offset, which stateRef and the button's closure hold.
C3_ZoomToPoint ==
    lastZoom.kind \in {"wheel", "button"} =>
        LogicalAt(lastZoom.anchor, position, scale) = LogicalAt(lastZoom.anchor, stateRef.position, stateRef.scale)

\* a wheel zoom from scale 5 with factor 10, clamped at the upper limit, that moved the offset
C3_Witness ==
    /\ lastZoom.kind = "wheel"
    /\ lastZoom.input = 0 - 4500
    /\ stateRef.scale = RInt(5)
    /\ scale = MaxScale
    /\ position # stateRef.position

\* C4: once the initial fit has run, and after any wheel zooms, button zooms and
\* pans, the scale lies in [0.1, 10.0].
C4_ScaleInRange ==
    ~shouldCenterRef => (~RLess(scale, MinScale) /\ ~RLess(MaxScale, scale))

-----------------------------------------------------------------------------
(* Properties of the annotation store. *)

IsAttached(a, id) ==
    a.type = "connection" /\ (a.sourceId = id \/ a.targetId = id)

\* C1: delete(X) removes exactly X and every connection whose sourceId or targetId
\* is X; every other annotation stays, with its fields and in the same relative order.
C1_DeleteCascade ==
    lastOp.op = "delete" =>
        LET stays(a) == a.id # lastOp.id /\ ~IsAttached(a, lastOp.id)
        IN  annotations = SelectSeq(prevAnnotations, stays)

\* a delete that removed the annotation and a connection attached to it and left another one
C1_Witness ==
    /\ lastOp.op = "delete"
    /\ \E i, j, k \in 1..Len(prevAnnotations) :
        /\ prevAnnotations[i].id = lastOp.id
        /\ IsAttached(prevAnnotations[j], lastOp.id) /\ prevAnnotations[j].targetId = lastOp.id /\ j # i
        /\ k # i /\ ~IsAttached(prevAnnotations[k], lastOp.id)
    /\ Len(annotations) >= 1
    /\ Len(annotations) < Len(prevAnnotations) - 1

Resolves(id) ==
    \E j \in 1..Len(annotations) : annotations[j].id = id /\ annotations[j].type \in {"box", "node"}

\* C2: in every reachable state every connection has a sourceId and a targetId that
\* are each the id of a box or node currently in the collection.
C2_ConnectionsResolve ==
    \A i \in 1..Len(annotations) :
        annotations[i].type = "connection" => (Resolves(annotations[i].sourceId) /\ Resolves(annotations[i].targetId))

InRange(i, coll) == i >= 0 /\ i < Len(coll)

\* C7: reorder(fromIndex, toIndex) with an index outside 0..length-1, or with equal
\* indices, leaves the collection exactly as it was.
C7_InvalidReorderIsNoOp ==
    (/\ lastOp.op = "reorder"
     /\ \/ ~InRange(lastOp.p[1], prevAnnotations)
        \/ ~InRange(lastOp.p[2], prevAnnotations)
        \/ lastOp.p[1] = lastOp.p[2])
    => annotations = prevAnnotations

\* C8: reorder(i, i) leaves the collection identical, and for adjacent valid i and j
\* reorder(i, j) followed by reorder(j, i) restores the original order.
C8_ReorderRoundTrip ==
    /\ (lastOp.op = "reorder" /\ lastOp.p[1] = lastOp.p[2]) => annotations = prevAnnotations
    /\ (/\ lastOp.op = "reorderBack"
        /\ InRange(lastOp.p[1], original)
        /\ InRange(lastOp.p[2], original)
        /\ Abs(lastOp.p[1] - lastOp.p[2]) = 1)
       => annotations = original

\* an adjacent swap that changed the order and was undone by the swap back
C8_Witness ==
    /\ lastOp.op = "reorderBack"
    /\ InRange(lastOp.p[1], original)
    /\ InRange(lastOp.p[2], original)
    /\ Abs(lastOp.p[1] - lastOp.p[2]) = 1
    /\ prevAnnotations # original
    /\ annotations = original

\* 1-based rank of the annotation at position i among those of its type, in collection order
Rank(coll, i) ==
    Cardinality({j \in 1..i : coll[j].type = coll[i].type})

\* C9: appending an annotation never changes the typeIndex of an annotation already
\* in the collection; typeIndex is the rank among same-type annotations computed
\* from the current order and is no field of the record.
C9_TypeIndexStable ==
    /\ lastOp.op = "add" =>
        \A i \in 1..Len(prevAnnotations) :
            getTypeIndex(annotations, prevAnnotations[i]) = getTypeIndex(prevAnnotations, prevAnnotations[i])
    /\ \A i \in 1..Len(annotations) :
        /\ getTypeIndex(annotations, annotations[i]) = Rank(annotations, i)
        /\ "typeIndex" \notin DOMAIN annotations[i]

\* an annotation was added to a collection that already held one of its type
C9_Witness ==
    /\ lastOp.op = "add"
    /\ Len(annotations) = Len(prevAnnotations) + 1
    /\ \E i \in 1..Len(prevAnnotations), j \in 1..Len(annotations) :
        annotations[j].id = lastOp.id /\ prevAnnotations[i].type = annotations[j].type

\* C10: no two annotations of the collection have the same id, and update, resize,
\* reorder and link leave the id of every existing annotation as it was.
C10_IdsUniqueAndFixed ==
    /\ \A i, j \in 1..Len(annotations) : i # j => annotations[i].id # annotations[j].id
    /\ lastOp.op \in {"update", "resize", "link"} =>
        /\ Len(annotations) = Len(prevAnnotations)
        /\ \A i \in 1..Len(annotations) : annotations[i].id = prevAnnotations[i].id
    /\ lastOp.op = "reorder" =>
        /\ Len(annotations) = Len(prevAnnotations)
        /\ Ids(annotations) = Ids(prevAnnotations)
    /\ lastOp.op = "add" =>
        \A i \in 1..Len(prevAnnotations) : annotations[i].id = prevAnnotations[i].id

\* after an earlier annotation had been deleted, a remaining one was resized
C10_Witness ==
    /\ lastOp.op = "resize"
    /\ annotations # prevAnnotations
    /\ Len(annotations) >= 1
    /\ nextId > Len(annotations)

-----------------------------------------------------------------------------
(* Properties of the overlay's geometry. *)

\* the annotation appended by the last operation
Added == annotations[Len(annotations)]

\* C5: a box-mode drag from anchor a to point b commits x = min(a.x, b.x),
\* y = min(a.y, b.y), width = |b.x - a.x|, height = |b.y - a.y|, so width and height
\* are never negative; the drag (100,100) to (40,40) commits 40, 40, 60, 60.
C5_BoxNormalised ==
    (lastOp.op = "mouseUpBox" /\ Len(annotations) = Len(prevAnnotations) + 1) =>
        /\ Added.type = "box"
        /\ Added.x = Min2(lastOp.p[1], lastOp.q[1])
        /\ Added.y = Min2(lastOp.p[2], lastOp.q[2])
        /\ Added.width = Abs(lastOp.q[1] - lastOp.p[1])
        /\ Added.height = Abs(lastOp.q[2] - lastOp.p[2])
        /\ Added.width >= 0 /\ Added.height >= 0
        /\ (lastOp.p = <<400, 400>> /\ lastOp.q = <<160, 160>>) =>
            (Added.x = 160 /\ Added.y = 160 /\ Added.width = 240 /\ Added.height = 240)

\* the drag from (100,100) up and left to (40,40) committed a box
C5_Witness ==
    /\ lastOp.op = "mouseUpBox"
    /\ lastOp.p = <<400, 400>>
    /\ lastOp.q = <<160, 160>>
    /\ Len(annotations) = Len(prevAnnotations) + 1
    /\ Added.type = "box"

\* C6: whatever the handle, the original rectangle and the pointer delta, the
\* rectangle a resize drag hands to the store has width >= 0.5 and height >= 0.5.
C6_ResizeFloor ==
    lastOp.op = "resize" =>
        /\ resizeState # <<>>
        /\ ResizeRect(resizeState[1], lastOp.p[1], lastOp.p[2]).width >= MinSize
        /\ ResizeRect(resizeState[1], lastOp.p[1], lastOp.p[2]).height >= MinSize
        /\ \A i \in 1..Len(annotations) :
            annotations[i].id = lastOp.id => (annotations[i].width >= MinSize /\ annotations[i].height >= MinSize)

\* a west or north handle was dragged far past the opposite edge and the rectangle stopped at the floor
C6_Witness ==
    /\ lastOp.op = "resize"
    /\ resizeState # <<>>
    /\ resizeState[1].handle = "nw"
    /\ lastOp.p = <<1000, 1000>>
    /\ \E i \in 1..Len(annotations) :
        /\ annotations[i].id = lastOp.id
        /\ annotations[i].width = MinSize
        /\ annotations[i].height = MinSize
        /\ annotations[i] # prevAnnotations[i]

-----------------------------------------------------------------------------
(* Properties of the connection gesture and of pointer-leave. *)

\* the last handler was a pointer-down on an annotation in connection mode with drawing on
ConnectionClick ==
    lastOp.op = "startResizeOrMove" /\ toolMode = "connection" /\ lastOp.q[2] = 1

\* C11: no connection with sourceId equal to targetId is ever created: a
\* pointer-down on the annotation that is already the pending source adds nothing
\* and leaves the pending source as it was.
C11_NoSelfLoop ==
    /\ \A i \in 1..Len(annotations) :
        annotations[i].type = "connection" => annotations[i].sourceId # annotations[i].targetId
    /\ (ConnectionClick /\ lastOp.q[1] # NoId /\ lastOp.q[1] = lastOp.id) =>
        (annotations = prevAnnotations /\ pendingSourceId = lastOp.id /\ finished = 0 /\ isDrawing)

\* the pending source was clicked again while another annotation could have been the target
C11_Witness ==
    /\ ConnectionClick
    /\ lastOp.q[1] # NoId
    /\ lastOp.q[1] = lastOp.id
    /\ pendingSourceId = lastOp.id
    /\ \E i \in 1..Len(annotations) : Rendered(annotations[i]) /\ annotations[i].id # lastOp.id

\* C13: when the pointer leaves the overlay while a box is being drawn or a
\* connection source is pending, the overlay is Idle afterwards (no current box,
\* no pending source) and no annotation was added.
C13_LeaveResetsToIdle ==
    lastOp.op = "mouseLeave" =>
        (currentBox = <<>> /\ pendingSourceId = NoId /\ annotations = prevAnnotations)

\* C17: in connection mode a pointer-down on A with no pending source makes A the
\* pending source; a following pointer-down on a different B adds exactly one
\* connection from A to B, clears the pending source and signals finished-drawing;
\* a pointer-down on empty canvas while a source is pending clears it and adds nothing.
C17_ConnectionGesture ==
    /\ (ConnectionClick /\ lastOp.q[1] = NoId) =>
        (pendingSourceId = lastOp.id /\ annotations = prevAnnotations /\ finished = 0)
    /\ (ConnectionClick /\ lastOp.q[1] # NoId /\ lastOp.q[1] # lastOp.id) =>
        /\ Len(annotations) = Len(prevAnnotations) + 1
        /\ SubSeq(annotations, 1, Len(prevAnnotations)) = prevAnnotations
        /\ Added.type = "connection"
        /\ Added.sourceId = lastOp.q[1]
        /\ Added.targetId = lastOp.id
        /\ pendingSourceId = NoId
        /\ finished = 1
        /\ ~isDrawing
    /\ (lastOp.op = "mouseDown" /\ toolMode = "connection" /\ lastOp.q[1] # NoId) =>
        (pendingSourceId = NoId /\ annotations = prevAnnotations /\ finished = 0)

\* A was picked, then B was clicked, and the connection from A to B is the newest annotation
C17_Witness ==
    /\ ConnectionClick
    /\ lastOp.q[1] # NoId
    /\ lastOp.q[1] # lastOp.id
    /\ Resolves(lastOp.q[1])
    /\ Len(annotations) = Len(prevAnnotations) + 1
    /\ Added.sourceId = lastOp.q[1]
    /\ Added.targetId = lastOp.id

-----------------------------------------------------------------------------
(* Properties of the store handlers' edge cases. *)

\* C12: update and resize with an id that matches no annotation of the collection
\* (a deleted id, say) do not fail and leave every annotation and the order unchanged.
C12_MissingIdIsNoOp ==
    (lastOp.op \in {"update", "resize"} /\ lastOp.id \notin Ids(prevAnnotations)) =>
        annotations = prevAnnotations

\* resize was called with the id of a deleted annotation on a collection that still holds one
C12_Witness ==
    /\ lastOp.op = "resize"
    /\ lastOp.id \notin Ids(prevAnnotations)
    /\ lastOp.id <= nextId
    /\ Len(prevAnnotations) >= 1
    /\ annotations = prevAnnotations

\* C15: add appends exactly one record at the end and leaves the existing records
\* and their order as they were; the record has a fresh id and the default label of
\* its type: "node" for node, "connection" for connection and line, "" otherwise.
C15_AddAppendsOne ==
    lastOp.op = "add" =>
        /\ Len(annotations) = Len(prevAnnotations) + 1
        /\ SubSeq(annotations, 1, Len(prevAnnotations)) = prevAnnotations
        /\ Added.id = lastOp.id
        /\ Added.id \notin Ids(prevAnnotations)
        /\ Added.id = nextId
        /\ Added.label = (CASE Added.type = "node" -> "node"
                            [] Added.type \in {"connection", "line"} -> "connection"
                            [] OTHER -> "")

\* a line was added to a collection that already held an annotation
C15_Witness ==
    /\ lastOp.op = "add"
    /\ Len(prevAnnotations) >= 1
    /\ Len(annotations) = Len(prevAnnotations) + 1
    /\ Added.type = "line"
    /\ Added.label = "connection"

-----------------------------------------------------------------------------
(* Properties of pointer-up and pointer-leave during a gesture. *)

\* C14: if the pointer leaves the overlay during a resize or move drag, nothing was
\* committed: the dragged annotation's x, y, width and height in the collection are
\* the values it had when the drag started.
C14_LeaveAbandonsResize ==
    (lastOp.op = "mouseLeave" /\ lastOp.id # NoId) =>
        \A i \in 1..Len(annotations) :
            annotations[i].id = lastOp.id =>
                /\ <<annotations[i].x, annotations[i].y>> = lastOp.p
                /\ <<annotations[i].width, annotations[i].height>> = lastOp.q

\* C16: on pointer-up while a box is being drawn, a box is added if and only if
\* both |current.x - anchor.x| > 0.5 and |current.y - anchor.y| > 0.5; either way
\* the current box is cleared and finished-drawing is signalled exactly once.
C16_BoxCommitThreshold ==
    lastOp.op = "mouseUpBox" =>
        LET bigEnough == Abs(lastOp.q[1] - lastOp.p[1]) > MinSize /\ Abs(lastOp.q[2] - lastOp.p[2]) > MinSize
        IN  /\ bigEnough => (Len(annotations) = Len(prevAnnotations) + 1 /\ Added.type = "box" /\ SubSeq(annotations, 1, Len(prevAnnotations)) = prevAnnotations)
            /\ ~bigEnough => annotations = prevAnnotations
            /\ currentBox = <<>>
            /\ finished = 1
            /\ ~isDrawing

\* a drag whose height is exactly 0.5 ended and no box was added
C16_Witness ==
    /\ lastOp.op = "mouseUpBox"
    /\ Abs(lastOp.q[1] - lastOp.p[1]) > MinSize
    /\ Abs(lastOp.q[2] - lastOp.p[2]) = MinSize
    /\ annotations = prevAnnotations
    /\ currentBox = <<>>
    /\ finished = 1

\* ---------------------------------------------------------------------
\* C18: at most one submit request to the backend is outstanding at any
\* time: while a submission is in flight no further one can be started
\* ---------------------------------------------------------------------
C18_OneSubmitOutstanding == inFlight <= 1

\* ---------------------------------------------------------------------
\* C19: fit-to-container runs at most once per loaded document: once the
\* first load has cleared shouldCenterRef the flag stays cleared, and
\* every step that is not a zoom or a pan move (a repeated load callback,
\* a page change, a render) leaves scale and position as they are
\* ---------------------------------------------------------------------
C19_FitOnce ==
    [][~shouldCenterRef =>
          /\ ~shouldCenterRef'
          /\ Wheel \/ ZoomButton \/ PanMove \/ (scale' = scale /\ position' = position)]_vars

\* a load callback has run after a zoom, and the view is not the fitted one
C19_Witness ==
    /\ lastZoom.kind = "load"
    /\ ~shouldCenterRef
    /\ steps >= 1
    /\ scale # FitToContainer(container, content, viewer = "image").scale

\* ---------------------------------------------------------------------
\* C20: a wheel event with deltaY = 0 leaves scale and offset unchanged
\* in every reachable viewport state (here: even when the listener sees
\* the latest scale and position)
\* ---------------------------------------------------------------------
C20_WheelZeroIsNoOp ==
    [][(stateRef = Current /\ lastZoom'.kind = "wheel" /\ lastZoom'.input = 0)
          => (scale' = scale /\ position' = position)]_vars

\* ---------------------------------------------------------------------
\* C21: wheel events are processed in arrival order without coalescing:
\* when a wheel event follows another one, also before the component has
\* re-rendered, the resulting scale and position are those of zooming the
\* scale and position the first event left
\* ---------------------------------------------------------------------
C21_WheelsCompose ==
    [][(lastZoom.kind = "wheel" /\ lastZoom'.kind = "wheel")
          => \E mouse \in WheelPoints :
                 /\ lastZoom'.anchor = <<RInt(mouse[1]), RInt(mouse[2])>>
                 /\ [scale |-> scale', position |-> position'] = onWheel(Current, mouse, lastZoom'.input)]_vars

\* ---------------------------------------------------------------------
\* C22: the first load of a document, in the image viewer and in the PDF
\* viewer, sets the largest scale s with contentWidth * s + 40 <=
\* containerWidth and contentHeight * s + 40 <= containerHeight that does
\* not exceed 1.0, and the offset that centres the content at that scale
\* ---------------------------------------------------------------------
C22_FitIsLargestCappedAndCentred ==
    [][(shouldCenterRef /\ lastZoom'.kind = "load")
          => LET n == scale'[1]
                 d == scale'[2]
                 fitsW == content[1] * n + 40 * d <= container[1] * d
                 fitsH == content[2] * n + 40 * d <= container[2] * d
                 tightW == content[1] * n + 40 * d = container[1] * d
                 tightH == content[2] * n + 40 * d = container[2] * d
             IN  /\ fitsW /\ fitsH
                 /\ n <= d
                 /\ tightW \/ tightH \/ n = d
                 /\ position'[1] = RDiv(RSub(RInt(container[1]), RMul(RInt(content[1]), scale')), RInt(2))
                 /\ position'[2] = RDiv(RSub(RInt(container[2]), RMul(RInt(content[2]), scale')), RInt(2))]_vars

\* ---------------------------------------------------------------------
\* C23: in node mode a primary-button pointer-down at p adds exactly one
\* node of width and height 1 centred on p and signals finished-drawing;
\* no drag state is entered (currentBox and resizeState stay as they
\* are), and the pointer-move and pointer-up that follow add nothing and
\* start nothing
\* ---------------------------------------------------------------------
NodePlaced == lastOp.op = "mouseDown" /\ toolMode = "node" /\ lastOp.q[2] = 0

C23_NodeOnPointerDown ==
    [][/\ (isDrawing /\ toolMode = "node" /\ lastOp'.op = "mouseDown" /\ lastOp'.q[2] = 0) =>
              /\ Len(annotations') = Len(annotations) + 1
              /\ SubSeq(annotations', 1, Len(annotations)) = annotations
              /\ LET node == annotations'[Len(annotations')]
                 IN  /\ node.type = "node"
                     /\ node.width = 4 /\ node.height = 4
                     /\ node.x = lastOp'.p[1] - 2
                     /\ node.y = lastOp'.p[2] - 2
              /\ finished' = 1
              /\ ~isDrawing'
              /\ currentBox' = currentBox
              /\ resizeState' = resizeState
       /\ (NodePlaced /\ lastOp'.op \in {"mouseMove", "mouseMoveIdle", "mouseUpBox", "mouseUpResize", "mouseUpIdle"}) =>
              /\ annotations' = annotations
              /\ currentBox' = currentBox
              /\ resizeState' = resizeState]_vars

\* a node has just been placed at (40.75, 99.5)
C23_Witness ==
    /\ NodePlaced
    /\ lastOp.p = <<163, 398>>
    /\ Len(annotations) = Len(prevAnnotations) + 1
    /\ annotations[Len(annotations)].type = "node"
    /\ annotations[Len(annotations)].x = 161

\* ---------------------------------------------------------------------
\* C24: getRectIntersection(box, center, otherCenter), with center the
\* centre of box, returns the midpoint of the right face when
\* |dy/dx| < h/w and dx > 0, of the left face when |dy/dx| < h/w and
\* dx <= 0, of the bottom face when |dy/dx| >= h/w and dy > 0, and of the
\* top face otherwise, a ray with |dx| <= 0.001 being vertical (never
\* less steep than the box); the point lies on the boundary of the box
\* ---------------------------------------------------------------------
C24_FaceMidpoint ==
    clipPoint # <<>> =>
        LET center == CenterOf(clipBox)
            dx == clipOther[1] - center[1]
            dy == clipOther[2] - center[2]
            vertical == Abs(dx) * 1000 <= 1
            flatter == ~vertical /\ Abs(dy) * clipBox.w < clipBox.h * Abs(dx)
            pt == clipPoint[1]
        IN  /\ (flatter /\ dx > 0) => pt = <<clipBox.x + clipBox.w, center[2]>>
            /\ (flatter /\ dx <= 0) => pt = <<clipBox.x, center[2]>>
            /\ (~flatter /\ dy > 0) => pt = <<center[1], clipBox.y + clipBox.h>>
            /\ (~flatter /\ dy <= 0) => pt = <<center[1], clipBox.y>>
            /\ \/ pt[1] \in {clipBox.x, clipBox.x + clipBox.w} /\ pt[2] \in clipBox.y..(clipBox.y + clipBox.h)
               \/ pt[2] \in {clipBox.y, clipBox.y + clipBox.h} /\ pt[1] \in clipBox.x..(clipBox.x + clipBox.w)

\* ---------------------------------------------------------------------
\* C25: during a resize drag the handles with e keep x and the handles
\* with s keep y; the handles with w keep the east edge x + width and the
\* handles with n keep the south edge y + height where they were when the
\* drag started; the move handle adds the whole pointer delta to x and y
\* and keeps width and height
\* ---------------------------------------------------------------------
C25_ResizeFrame ==
    (lastOp.op = "resize" /\ resizeState # <<>>) =>
        LET rs == resizeState[1]
        IN  \A i \in 1..Len(annotations) :
                annotations[i].id = lastOp.id =>
                    LET ann == annotations[i]
                    IN  /\ rs.handle \in {"ne", "se"} => ann.x = rs.originalX
                        /\ rs.handle \in {"sw", "se"} => ann.y = rs.originalY
                        /\ rs.handle \in {"nw", "sw"} => ann.x + ann.width = rs.originalX + rs.originalW
                        /\ rs.handle \in {"nw", "ne"} => ann.y + ann.height = rs.originalY + rs.originalH
                        /\ rs.handle = "move" =>
                               /\ ann.x = rs.originalX + lastOp.p[1]
                               /\ ann.y = rs.originalY + lastOp.p[2]
                               /\ ann.width = rs.originalW
                               /\ ann.height = rs.originalH

\* the north-west handle was dragged by (-0.25, 0.75): the corner moved, the opposite corner did not
C25_Witness ==
    /\ lastOp.op = "resize"
    /\ resizeState # <<>>
    /\ resizeState[1].handle = "nw"
    /\ lastOp.p = <<0 - 1, 3>>
    /\ \E i \in 1..Len(annotations) :
        /\ annotations[i].id = lastOp.id
        /\ annotations[i].x = resizeState[1].originalX - 1
        /\ annotations[i].y = resizeState[1].originalY + 3
        /\ annotations[i].x + annotations[i].width = resizeState[1].originalX + resizeState[1].originalW

\* ---------------------------------------------------------------------
\* C26: a connection whose sourceId or targetId is not the id of an
\* annotation of the collection is skipped by the connections layer and
\* stays in the collection: add, update, resize, link and reorder keep
\* every record the collection had, and only delete removes records
\* ---------------------------------------------------------------------
Dangling(ann, anns) ==
    ann.type = "connection" /\ (ann.sourceId \notin Ids(anns) \/ ann.targetId \notin Ids(anns))

C26_DanglingKeptNotDrawn ==
    /\ lastOp.op \in {"add", "update", "resize", "link", "reorder"} =>
           /\ Len(annotations) >= Len(prevAnnotations)
           /\ \A i \in 1..Len(prevAnnotations) :
                  \E j \in 1..Len(annotations) : annotations[j].id = prevAnnotations[i].id
    /\ \A i \in 1..Len(annotations) :
           Dangling(annotations[i], annotations) =>
               \A k \in 1..Len(DrawnConnections(annotations)) : DrawnConnections(annotations)[k].id # annotations[i].id
    /\ Len(annotations) < Len(prevAnnotations) => lastOp.op = "delete"

\* a connection with a missing end went through an update: it is still there, and it is not drawn
C26_Witness ==
    /\ lastOp.op = "update"
    /\ annotations # prevAnnotations
    /\ \E i \in 1..Len(prevAnnotations) :
        /\ Dangling(prevAnnotations[i], prevAnnotations)
        /\ \E j \in 1..Len(annotations) :
            /\ annotations[j].id = prevAnnotations[i].id
            /\ Dangling(annotations[j], annotations)
    /\ Len(DrawnConnections(annotations)) = 0

\* ---------------------------------------------------------------------
\* C27: in the PDF viewer a zoom that arrives before the render timer
\* fires cancels the pending timer, so renderedScale is never set to a
\* scale that has already been superseded: a timer that fires right
\* after a zoom sets renderedScale to the scale of that zoom
\* ---------------------------------------------------------------------
C27_NoSupersededPromotion ==
    [][(viewer = "pdf" /\ lastZoom.kind \in {"wheel", "button"} /\ RenderTimeout)
          => renderedScale' = scale]_vars

\* ---------------------------------------------------------------------
\* C28: whenever drawing mode is off or the active tool is not
\* connection, no connection source is pending
\* ---------------------------------------------------------------------
C28_PendingOnlyInConnectionMode ==
    (~isDrawing \/ toolMode # "connection") => pendingSourceId = NoId

\* ---------------------------------------------------------------------
\* C29: in every reachable state every box of the collection has
\* width >= 0.5 and height >= 0.5, whatever draw, resize and move
\* gestures produced it
\* ---------------------------------------------------------------------
C29_BoxesAtLeastMinSize ==
    \A i \in 1..Len(annotations) :
        annotations[i].type = "box" => (annotations[i].width >= MinSize /\ annotations[i].height >= MinSize)

\* a drawn box was shrunk with the south-east handle far past its north-west corner
C29_Witness ==
    /\ lastOp.op = "resize"
    /\ resizeState # <<>>
    /\ resizeState[1].handle = "se"
    /\ resizeState[1].originalW > MinSize
    /\ lastOp.p = <<0 - 1000, 0 - 1000>>
    /\ \E i \in 1..Len(annotations) :
        /\ annotations[i].id = lastOp.id
        /\ annotations[i].type = "box"
        /\ annotations[i].width = MinSize
        /\ annotations[i].height = MinSize

\* ---------------------------------------------------------------------
\* C30: in every reachable state the linkedAnnotationId of every text
\* annotation is unset or the id of an annotation of the collection,
\* also after the linked box or node has been deleted
\* ---------------------------------------------------------------------
C30_LinksResolve ==
    \A i \in 1..Len(annotations) :
        annotations[i].type = "text" =>
            (annotations[i].linkedAnnotationId = NoId \/ annotations[i].linkedAnnotationId \in Ids(annotations))

====
